---- MODULE Spec2Model ----
(***************************************************************************)
(* Model of the render pipeline of imgly-sdk-html5:                        *)
(*   RenderImage (constructor, _initRenderer, render) in lib/render-image  *)
(*   and the promise library's map() that render() drives the operation    *)
(*   stack with.                                                           *)
(*                                                                         *)
(* JavaScript runs one job at a time: a synchronous job (the loop that     *)
(* map() runs over its input, the drain of its queue) is modelled as a     *)
(* run of steps during which no promise settles (mCursor /= 0 or mDrain).  *)
(***************************************************************************)
EXTENDS Integers, Sequences, FiniteSets, TLC

\* Largest operation stack explored.
MaxOps == 3

\* { concurrency: 1 } handed to the map over the operations' render().
concurrency == 1

\* Pixel lengths of the source image; powers of two keep ratios exact.
ImageVals == {2, 4}

\* Lengths a dimension spec may name; 0 is the non-positive (invalid) one.
SpecVals == {0, 2, 4}

Sizes == ImageVals \X ImageVals

Preferences == {"canvas", "webgl", "auto"}

Outcomes == {"pending", "fulfilled", "rejected"}

Settled == {"fulfilled", "rejected"}

DimSpecs ==
  {[kind |-> "unchanged", x |-> 0, y |-> 0]}
    \cup {[kind |-> "exact", x |-> a, y |-> b] : a \in SpecVals, b \in SpecVals}
    \cup {[kind |-> "width", x |-> a, y |-> 0] : a \in SpecVals}
    \cup {[kind |-> "height", x |-> 0, y |-> b] : b \in SpecVals}

VARIABLES
  webglSupported,     \* WebGLRenderer.isSupported() of the environment
  canvasSupported,    \* CanvasRenderer.isSupported() of the environment
  preferredRenderer,  \* this._options.preferredRenderer
  stackLen,           \* length of this._stack; operations are 1..stackLen
  imageSize,          \* this._initialDimensions
  dimensions,         \* this._dimensions (the parsed dimension spec)
  renderer,           \* this._renderer: "null", "webgl" or "canvas"
  webglEnabled,       \* this._webglEnabled
  pc,                 \* phase of the pipeline
  promise,            \* the promise render() returned
  size,               \* the renderer's current size (getSize())
  applied,            \* operations whose effect is on the renderer, in order
  vstate,             \* per operation: state of its validateSettings() promise
  rstate,             \* per operation: state of its render() promise
  mCursor,            \* map(): next index of the initial loop, 0 when not looping
  mQueue,             \* map(): this._queue
  mInFlight,          \* map(): this._inFlight
  mTotalResolved,     \* map(): this._totalResolved
  mState,             \* map(): state of the promise map() returned
  mDrain,             \* map(): TRUE while _drainQueue() is running
  finalState,         \* state of the renderFinal() result
  resizeState,        \* state of the resizeTo() result
  initialSize,        \* var initialSize of the resize step
  log,                \* calls the pipeline issued and render completions, in order
  surfaces,           \* CanvasRenderer: the canvases allocated so far
  activeCanvas,       \* CanvasRenderer: this._canvas, an index of surfaces
  clones,             \* CanvasRenderer: canvases cloneCanvas() returned
  lastCall,           \* CanvasRenderer: the last method called and its argument
  imageDefined,       \* ImglyKit: typeof this._options.image !== "undefined"
  runs,               \* per render() call: the state of its promise chain
  insts,              \* the RenderImage instances constructed, each naming its renderer
  rends               \* the renderer instances constructed

envVars == <<webglSupported, canvasSupported, preferredRenderer, stackLen,
             imageSize, dimensions>>

mapVars == <<mCursor, mQueue, mInFlight, mTotalResolved, mState, mDrain>>

vars == <<webglSupported, canvasSupported, preferredRenderer, stackLen,
          imageSize, dimensions, renderer, webglEnabled, pc, promise, size,
          applied, vstate, rstate, mCursor, mQueue, mInFlight, mTotalResolved,
          mState, mDrain, finalState, resizeState, initialSize, log,
          surfaces, activeCanvas, clones, lastCall, imageDefined, runs, insts,
          rends>>

canvasVars == <<surfaces, activeCanvas, clones, lastCall>>

callVars == <<imageDefined, runs, insts, rends>>

\* The state of RenderImage and of one render() call on it.
pipeVars == <<renderer, webglEnabled, pc, promise, size, applied, vstate,
              rstate, mCursor, mQueue, mInFlight, mTotalResolved, mState,
              mDrain, finalState, resizeState, initialSize, log>>

Ops == 1..stackLen

AllOps == 1..(MaxOps + 1)

\* ------------------------------------------------------------------------
\* Pure helpers

\* Vector2.equals
equals(a, b) == a[1] = b[1] /\ a[2] = b[2]

\* A spec naming a non-positive length is an error.
InvalidSpec(spec) ==
  \/ spec.kind = "exact" /\ (spec.x <= 0 \/ spec.y <= 0)
  \/ spec.kind = "width" /\ spec.x <= 0
  \/ spec.kind = "height" /\ spec.y <= 0

\* ImageDimensions.calculateFinalDimensions(initialSize)
calculateFinalDimensions(spec, cur) ==
  CASE spec.kind = "unchanged" -> cur
    [] spec.kind = "exact" -> <<spec.x, spec.y>>
    [] spec.kind = "width" -> <<spec.x, (cur[2] * spec.x) \div cur[1]>>
    [] spec.kind = "height" -> <<(cur[1] * spec.y) \div cur[2], spec.y>>

\* Variant: falls back to the canvas backend without probing it.
SelectRendererFallback(webgl, canvas, preferred) ==
  IF webgl /\ preferred /= "canvas" THEN "webgl" ELSE "canvas"

\* Variant: the preference is not consulted.
SelectRendererIgnorePreference(webgl, canvas, preferred) ==
  IF webgl THEN "webgl"
  ELSE IF canvas THEN "canvas"
  ELSE "null"

\* The branch of _initRenderer that is taken.
SelectRenderer(webgl, canvas, preferred) ==
  IF webgl /\ preferred /= "canvas" THEN "webgl"
  ELSE IF canvas THEN "canvas"
  ELSE "null"

\* Variant: the { concurrency: 1 } option is missing.
LimitUnlimited(phase) == 0

\* The concurrency limit of the map() a phase runs (0: unlimited).
Limit(phase) == IF phase = "Rendering" THEN concurrency ELSE 0

\* Variant: the equality test is missing.
NeedsResizeAlways(finalDimensions, initial) == TRUE

\* if (finalDimensions.equals(initialSize)) return; else resizeTo
NeedsResize(finalDimensions, initial) == ~equals(finalDimensions, initial)

\* Sizes an operation's render may leave the renderer with (keep, rotate).
OpSizes(cur) == {cur, <<cur[2], cur[1]>>}

Last(s) == s[Len(s)]

Front(s) == SubSeq(s, 1, Len(s) - 1)

\* ------------------------------------------------------------------------
\* Initial state: before new RenderImage(image, stack, dimensions, preferred)

Init ==
  /\ webglSupported \in BOOLEAN
  /\ canvasSupported \in BOOLEAN
  /\ preferredRenderer \in Preferences
  /\ stackLen \in 0..MaxOps
  /\ imageSize \in Sizes
  /\ dimensions \in DimSpecs
  /\ renderer = "null"
  /\ webglEnabled = FALSE
  /\ pc = "New"
  /\ promise = "none"
  /\ size = <<0, 0>>
  /\ applied = <<>>
  /\ vstate = [i \in AllOps |-> "idle"]
  /\ rstate = [i \in AllOps |-> "idle"]
  /\ mCursor = 0
  /\ mQueue = <<>>
  /\ mInFlight = 0
  /\ mTotalResolved = 0
  /\ mState = "idle"
  /\ mDrain = FALSE
  /\ finalState = "idle"
  /\ resizeState = "idle"
  /\ initialSize = <<0, 0>>
  /\ log = <<>>
  /\ surfaces = <<>>
  /\ activeCanvas = 0
  /\ clones = {}
  /\ lastCall = [op |-> "none", arg |-> <<0, 0>>, prev |-> 0, result |-> 0]
  /\ imageDefined = TRUE
  /\ runs = <<>>
  /\ insts = <<>>
  /\ rends = <<>>

\* ------------------------------------------------------------------------
\* constructor + _initRenderer

Construct ==
  /\ pc = "New"
  /\ LET sel == SelectRenderer(webglSupported, canvasSupported, preferredRenderer)
     IN IF sel = "null"
        THEN /\ pc' = "CtorFailed"
             /\ UNCHANGED <<renderer, webglEnabled, size, log>>
        ELSE /\ pc' = "Constructed"
             /\ renderer' = sel
             /\ webglEnabled' = (sel = "webgl")
             /\ size' = imageSize
             /\ log' = Append(log, <<"drawImage", 0>>)
  /\ UNCHANGED <<canvasVars, callVars>>
  /\ UNCHANGED <<envVars, promise, applied, vstate, rstate, mapVars,
                 finalState, resizeState, initialSize>>

\* ------------------------------------------------------------------------
\* The promise library's map(array, mapper, {concurrency})

\* Variant: a rejected item is counted like a fulfilled one.
MapStateAfterSwallow(cur, o, total, length) ==
  IF o \in Settled /\ total >= length THEN "fulfilled" ELSE cur

\* State of the promise map() returned after one more item was mapped with
\* outcome o, total being the number of items resolved so far.
MapStateAfter(cur, o, total, length) ==
  IF o = "rejected" THEN "rejected"
  ELSE IF o = "fulfilled" /\ total >= length THEN "fulfilled"
  ELSE cur

\* new MappingPromiseArray(...): an empty input resolves at once.
StartMap ==
  /\ mCursor' = IF stackLen = 0 THEN 0 ELSE 1
  /\ mQueue' = <<>>
  /\ mInFlight' = 0
  /\ mTotalResolved' = 0
  /\ mState' = IF stackLen = 0 THEN "fulfilled" ELSE "pending"
  /\ mDrain' = FALSE

\* The mapper of the running phase is called on operation i and returns a
\* promise in state o (a throw counts as "rejected"); sz is the size a
\* completed render leaves the renderer with.
CallMapper(i, o, sz) ==
  IF pc = "Validating"
  THEN /\ vstate' = [vstate EXCEPT ![i] = o]
       /\ log' = Append(log, <<"validateSettings", i>>)
       /\ UNCHANGED <<rstate, size, applied>>
  ELSE /\ rstate' = [rstate EXCEPT ![i] = o]
       /\ IF o = "fulfilled"
          THEN /\ log' = log \o << <<"render", i>>, <<"rendered", i>> >>
               /\ applied' = Append(applied, i)
               /\ size' = sz
          ELSE /\ log' = Append(log, <<"render", i>>)
               /\ UNCHANGED <<size, applied>>
       /\ UNCHANGED vstate

\* _promiseFulfilled, the branch after the mapper returned.
MapBook(o) ==
  /\ mInFlight' = IF o = "pending" /\ Limit(pc) >= 1
                  THEN mInFlight + 1 ELSE mInFlight
  /\ mTotalResolved' = IF o = "fulfilled"
                       THEN mTotalResolved + 1 ELSE mTotalResolved
  /\ mState' = MapStateAfter(mState, o, mTotalResolved + 1, stackLen)

\* One iteration of the loop map() runs over its input: the item is queued
\* when the limit is reached, mapped otherwise; the loop stops once the
\* returned promise is rejected.
MapInit(i, o, sz) ==
  /\ pc \in {"Validating", "Rendering"}
  /\ mCursor = i
  /\ mState = "pending"
  /\ IF Limit(pc) >= 1 /\ mInFlight >= Limit(pc)
     THEN /\ mQueue' = Append(mQueue, i)
          /\ UNCHANGED <<vstate, rstate, size, applied, log, mInFlight,
                         mTotalResolved, mState>>
     ELSE /\ CallMapper(i, o, sz)
          /\ MapBook(o)
          /\ UNCHANGED mQueue
  /\ mCursor' = IF i = stackLen \/ mState' /= "pending" THEN 0 ELSE i + 1
  /\ UNCHANGED <<canvasVars, callVars>>
  /\ UNCHANGED <<envVars, renderer, webglEnabled, pc, promise, mDrain,
                 finalState, resizeState, initialSize>>

\* A pending validateSettings() promise settles.
SettleValidate(i, o) ==
  /\ mCursor = 0 /\ ~mDrain
  /\ vstate[i] = "pending"
  /\ vstate' = [vstate EXCEPT ![i] = o]
  /\ IF pc = "Validating" /\ mState = "pending"
     THEN /\ mTotalResolved' = mTotalResolved + 1
          /\ mState' = MapStateAfter(mState, o, mTotalResolved + 1, stackLen)
     ELSE UNCHANGED <<mTotalResolved, mState>>
  /\ UNCHANGED <<canvasVars, callVars>>
  /\ UNCHANGED <<envVars, renderer, webglEnabled, pc, promise, size, applied,
                 rstate, mCursor, mQueue, mInFlight, mDrain, finalState,
                 resizeState, initialSize, log>>

\* A pending render() promise settles; with a limit, a fulfilment frees a
\* slot and starts _drainQueue().
SettleRender(i, o, sz) ==
  /\ mCursor = 0 /\ ~mDrain
  /\ rstate[i] = "pending"
  /\ rstate' = [rstate EXCEPT ![i] = o]
  /\ IF o = "fulfilled"
     THEN /\ log' = Append(log, <<"rendered", i>>)
          /\ applied' = Append(applied, i)
          /\ size' = sz
     ELSE UNCHANGED <<log, applied, size>>
  /\ IF pc = "Rendering" /\ mState = "pending"
     THEN IF o = "rejected"
          THEN /\ mTotalResolved' = mTotalResolved + 1
               /\ mState' = MapStateAfter(mState, o, mTotalResolved + 1, stackLen)
               /\ UNCHANGED <<mInFlight, mDrain>>
          ELSE IF Limit(pc) >= 1
          THEN /\ mInFlight' = mInFlight - 1
               /\ mDrain' = TRUE
               /\ UNCHANGED <<mTotalResolved, mState>>
          ELSE /\ mTotalResolved' = mTotalResolved + 1
               /\ mState' = MapStateAfter(mState, o, mTotalResolved + 1, stackLen)
               /\ UNCHANGED <<mInFlight, mDrain>>
     ELSE UNCHANGED <<mTotalResolved, mState, mInFlight, mDrain>>
  /\ UNCHANGED <<canvasVars, callVars>>
  /\ UNCHANGED <<envVars, renderer, webglEnabled, pc, promise, vstate,
                 mCursor, mQueue, finalState, resizeState, initialSize>>

\* The queued index _drainQueue() takes next: var index = queue.pop()
QueueNext(queue) == Last(queue)

\* Variant: the index taken stays in the queue.
QueueRestKeep(queue) == queue

\* The queue after that index was taken.
QueueRest(queue) == Front(queue)

\* One iteration of _drainQueue(): while the queue is not empty and a slot
\* is free, take an index and map it.
DrainStep(o, sz) ==
  /\ mDrain
  /\ mQueue /= <<>> /\ mInFlight < Limit(pc) /\ mState = "pending"
  /\ CallMapper(QueueNext(mQueue), o, sz)
  /\ MapBook(o)
  /\ mQueue' = QueueRest(mQueue)
  /\ UNCHANGED <<canvasVars, callVars>>
  /\ UNCHANGED <<envVars, renderer, webglEnabled, pc, promise, mCursor,
                 mDrain, finalState, resizeState, initialSize>>

\* _drainQueue() returns; the item whose fulfilment started it is counted.
DrainEnd ==
  /\ mDrain
  /\ ~(mQueue /= <<>> /\ mInFlight < Limit(pc) /\ mState = "pending")
  /\ mDrain' = FALSE
  /\ IF mState = "pending"
     THEN /\ mTotalResolved' = mTotalResolved + 1
          /\ mState' = MapStateAfter(mState, "fulfilled", mTotalResolved + 1,
                                     stackLen)
     ELSE UNCHANGED <<mTotalResolved, mState>>
  /\ UNCHANGED <<canvasVars, callVars>>
  /\ UNCHANGED <<envVars, renderer, webglEnabled, pc, promise, size, applied,
                 vstate, rstate, mCursor, mQueue, mInFlight, finalState,
                 resizeState, initialSize, log>>

\* ------------------------------------------------------------------------
\* RenderImage.render()

\* No synchronous job of map() is running.
Idle == mCursor = 0 /\ ~mDrain

\* render() is called: bluebird.map(this._stack, validateSettings)
Render ==
  /\ pc = "Constructed"
  /\ pc' = "Validating"
  /\ promise' = "pending"
  /\ StartMap
  /\ UNCHANGED <<canvasVars, callVars>>
  /\ UNCHANGED <<envVars, renderer, webglEnabled, size, applied, vstate,
                 rstate, finalState, resizeState, initialSize, log>>

\* Variant: the render map is started without awaiting the validations.
ValidationDoneEarly ==
  /\ pc = "Validating" /\ Idle
  /\ pc' = "Rendering"
  /\ StartMap
  /\ UNCHANGED <<canvasVars, callVars>>
  /\ UNCHANGED <<envVars, renderer, webglEnabled, promise, size, applied,
                 vstate, rstate, finalState, resizeState, initialSize, log>>

\* First .then(): bluebird.map(self._stack, render, { concurrency: 1 })
ValidationDone ==
  /\ pc = "Validating" /\ Idle
  /\ mState = "fulfilled"
  /\ pc' = "Rendering"
  /\ StartMap
  /\ UNCHANGED <<canvasVars, callVars>>
  /\ UNCHANGED <<envVars, renderer, webglEnabled, promise, size, applied,
                 vstate, rstate, finalState, resizeState, initialSize, log>>

\* Variant: the rejection is swallowed and never reaches the caller.
FailSilently ==
  /\ pc' = "Failed"
  /\ promise' = promise

\* A rejected step of the chain skips the later handlers and rejects the
\* promise render() returned.
Fail ==
  /\ pc' = "Failed"
  /\ promise' = "rejected"

ValidationFailed ==
  /\ pc = "Validating" /\ Idle
  /\ mState = "rejected"
  /\ Fail
  /\ UNCHANGED <<canvasVars, callVars>>
  /\ UNCHANGED <<envVars, renderer, webglEnabled, size, applied, vstate,
                 rstate, mapVars, finalState, resizeState, initialSize, log>>

\* Variant: renderFinal() is not chained behind the render map.
RenderFinalEarly(o) ==
  /\ pc = "Rendering" /\ Idle
  /\ pc' = "Finalizing"
  /\ finalState' = o
  /\ log' = Append(log, <<"renderFinal", 0>>)
  /\ UNCHANGED <<canvasVars, callVars>>
  /\ UNCHANGED <<envVars, renderer, webglEnabled, promise, size, applied,
                 vstate, rstate, mapVars, resizeState, initialSize>>

\* Inner .then(): return self._renderer.renderFinal()
RenderFinal(o) ==
  /\ pc = "Rendering" /\ Idle
  /\ mState = "fulfilled"
  /\ pc' = "Finalizing"
  /\ finalState' = o
  /\ log' = Append(log, <<"renderFinal", 0>>)
  /\ UNCHANGED <<canvasVars, callVars>>
  /\ UNCHANGED <<envVars, renderer, webglEnabled, promise, size, applied,
                 vstate, rstate, mapVars, resizeState, initialSize>>

RenderFailed ==
  /\ pc = "Rendering" /\ Idle
  /\ mState = "rejected"
  /\ Fail
  /\ UNCHANGED <<canvasVars, callVars>>
  /\ UNCHANGED <<envVars, renderer, webglEnabled, size, applied, vstate,
                 rstate, mapVars, finalState, resizeState, initialSize, log>>

\* A pending renderFinal() result settles.
SettleRenderFinal(o) ==
  /\ finalState = "pending"
  /\ finalState' = o
  /\ UNCHANGED <<canvasVars, callVars>>
  /\ UNCHANGED <<envVars, renderer, webglEnabled, pc, promise, size, applied,
                 vstate, rstate, mapVars, resizeState, initialSize, log>>

RenderFinalFailed ==
  /\ pc = "Finalizing"
  /\ finalState = "rejected"
  /\ Fail
  /\ UNCHANGED <<canvasVars, callVars>>
  /\ UNCHANGED <<envVars, renderer, webglEnabled, size, applied, vstate,
                 rstate, mapVars, finalState, resizeState, initialSize, log>>

\* Variant: the result of renderFinal() is not returned to the chain.
GetSizeUnchained ==
  /\ pc = "Finalizing"
  /\ pc' = "Resizing"
  /\ initialSize' = size
  /\ log' = Append(log, <<"getSize", 0>>)
  /\ UNCHANGED <<canvasVars, callVars>>
  /\ UNCHANGED <<envVars, renderer, webglEnabled, promise, size, applied,
                 vstate, rstate, mapVars, finalState, resizeState>>

\* Last .then(): var initialSize = self._renderer.getSize()
GetSize ==
  /\ pc = "Finalizing"
  /\ finalState = "fulfilled"
  /\ pc' = "Resizing"
  /\ initialSize' = size
  /\ log' = Append(log, <<"getSize", 0>>)
  /\ UNCHANGED <<canvasVars, callVars>>
  /\ UNCHANGED <<envVars, renderer, webglEnabled, promise, size, applied,
                 vstate, rstate, mapVars, finalState, resizeState>>

\* calculateFinalDimensions, equals, and resizeTo(finalDimensions) whose
\* result is in state o.
Resize(o) ==
  /\ pc = "Resizing"
  /\ resizeState = "idle"
  /\ IF InvalidSpec(dimensions)
     THEN /\ Fail
          /\ UNCHANGED <<resizeState, size, log>>
     ELSE LET finalDimensions == calculateFinalDimensions(dimensions, initialSize)
          IN IF NeedsResize(finalDimensions, initialSize)
             THEN /\ resizeState' = o
                  /\ log' = Append(log, <<"resizeTo", finalDimensions>>)
                  /\ size' = IF o = "fulfilled" THEN finalDimensions ELSE size
                  /\ pc' = CASE o = "fulfilled" -> "Complete"
                             [] o = "rejected" -> "Failed"
                             [] OTHER -> pc
                  /\ promise' = CASE o = "fulfilled" -> "resolved"
                                  [] o = "rejected" -> "rejected"
                                  [] OTHER -> promise
             ELSE /\ pc' = "Complete"
                  /\ promise' = "resolved"
                  /\ UNCHANGED <<resizeState, size, log>>
  /\ UNCHANGED <<canvasVars, callVars>>
  /\ UNCHANGED <<envVars, renderer, webglEnabled, applied, vstate, rstate,
                 mapVars, finalState, initialSize>>

\* A pending resizeTo() result settles.
SettleResize(o) ==
  /\ pc = "Resizing"
  /\ resizeState = "pending"
  /\ resizeState' = o
  /\ size' = IF o = "fulfilled"
             THEN calculateFinalDimensions(dimensions, initialSize) ELSE size
  /\ pc' = IF o = "fulfilled" THEN "Complete" ELSE "Failed"
  /\ promise' = IF o = "fulfilled" THEN "resolved" ELSE "rejected"
  /\ UNCHANGED <<canvasVars, callVars>>
  /\ UNCHANGED <<envVars, renderer, webglEnabled, applied, vstate, rstate,
                 mapVars, finalState, initialSize, log>>

\* ------------------------------------------------------------------------

Next ==
  \/ Construct
  \/ Render
  \/ \E i \in Ops, o \in Outcomes, sz \in OpSizes(size) : MapInit(i, o, sz)
  \/ \E i \in Ops, o \in Settled : SettleValidate(i, o)
  \/ \E i \in Ops, o \in Settled, sz \in OpSizes(size) : SettleRender(i, o, sz)
  \/ \E o \in Outcomes, sz \in OpSizes(size) : DrainStep(o, sz)
  \/ DrainEnd
  \/ ValidationDone
  \/ ValidationFailed
  \/ \E o \in Outcomes : RenderFinal(o)
  \/ RenderFailed
  \/ \E o \in Settled : SettleRenderFinal(o)
  \/ RenderFinalFailed
  \/ GetSize
  \/ \E o \in Outcomes : Resize(o)
  \/ \E o \in Settled : SettleResize(o)

\* The event loop runs every job that is ready, and every pending promise
\* of an operation or of the renderer settles.
Fairness == WF_vars(Next)

FairSpec == Init /\ [][Next]_vars /\ Fairness

Spec == Init /\ [][Next]_vars

TypeOK ==
  /\ pc \in {"New", "CtorFailed", "Constructed", "Validating", "Rendering",
             "Finalizing", "Resizing", "Complete", "Failed"}
  /\ renderer \in {"null", "webgl", "canvas"}
  /\ promise \in {"none", "pending", "resolved", "rejected"}
  /\ mInFlight \in 0..(MaxOps + 1)
  /\ mState \in {"idle", "pending", "fulfilled", "rejected"}

\* ------------------------------------------------------------------------
\* Reading the log

Events == 1..Len(log)

Called(e) == \E k \in Events : log[k] = e

\* Position of the first occurrence of e, 0 when there is none.
Pos(e) == IF Called(e) THEN CHOOSE k \in Events :
                              log[k] = e /\ \A m \in 1..(k - 1) : log[m] /= e
          ELSE 0

CountKind(kind) == Cardinality({k \in Events : log[k][1] = kind})

Before(e, f) == Called(e) /\ Called(f) /\ Pos(e) < Pos(f)

SomeValidationFailed == \E i \in Ops : vstate[i] = "rejected"

SomeRenderFailed == \E i \in Ops : rstate[i] = "rejected"

InFlight == {i \in Ops : rstate[i] = "pending"}

\* ------------------------------------------------------------------------
\* Claims

\* C1: if the validateSettings() of at least one operation fails, no
\* operation's render is invoked, neither renderFinal() nor resizeTo() is
\* called, the renderer is as construction left it, and the promise of
\* render() is rejected (never resolved; rejected once the chain has run).
C1_NoRenderAfterFailedValidation ==
  SomeValidationFailed =>
    /\ CountKind("render") = 0
    /\ CountKind("renderFinal") = 0
    /\ CountKind("getSize") = 0
    /\ CountKind("resizeTo") = 0
    /\ applied = <<>>
    /\ size = imageSize
    /\ \A i \in Ops : rstate[i] = "idle"
    /\ promise \in {"pending", "rejected"}
    /\ \/ pc = "Failed" /\ promise = "rejected"
       \/ pc = "Validating" /\ (Idle => mState = "rejected")

C1_Witness ==
  /\ stackLen = 3
  /\ vstate[1] = "fulfilled" /\ vstate[2] = "rejected" /\ vstate[3] = "fulfilled"
  /\ pc = "Failed"
  /\ promise = "rejected"

\* C2: the operations' renders are started in stack order: for i < j the
\* render of operation i is invoked, and has completed, before the render of
\* operation j is invoked (while no render has failed).
C2_RendersInStackOrder ==
  ~SomeRenderFailed =>
    \A i \in Ops, j \in Ops :
      (i < j /\ Called(<<"render", j>>)) =>
        Before(<<"rendered", i>>, <<"render", j>>)

\* C3: at every moment at most one operation's render is in flight (started
\* and not settled).
C3_AtMostOneRenderInFlight == Cardinality(InFlight) <= 1

C3_Witness ==
  /\ stackLen = 3
  /\ Cardinality(InFlight) = 1
  /\ Len(mQueue) = 2
  /\ Idle

\* C4: if the render of operation k fails, every operation below k has been
\* rendered and its effect is on the renderer, no operation above k is ever
\* rendered, renderFinal() and resizeTo() are never called, and render()
\* does not resolve.
C4_FailureMidStack ==
  \A k \in Ops :
    rstate[k] = "rejected" =>
      /\ \A i \in 1..(k - 1) : \E m \in 1..Len(applied) : applied[m] = i
      /\ \A j \in (k + 1)..stackLen :
           rstate[j] = "idle" /\ ~Called(<<"render", j>>)
      /\ CountKind("renderFinal") = 0
      /\ CountKind("resizeTo") = 0
      /\ promise \in {"pending", "rejected"}

\* C5: when all validations and renders succeed (empty stack included),
\* renderFinal() is called exactly once, after every operation's render has
\* completed and before the renderer's size is read; when a validation or a
\* render fails it is called zero times.
C5_RenderFinalExactlyOnce ==
  /\ CountKind("renderFinal") <= 1
  /\ Called(<<"renderFinal", 0>>) =>
       \A i \in Ops : /\ rstate[i] = "fulfilled"
                      /\ Before(<<"rendered", i>>, <<"renderFinal", 0>>)
  /\ Called(<<"getSize", 0>>) => Before(<<"renderFinal", 0>>, <<"getSize", 0>>)
  /\ (SomeValidationFailed \/ SomeRenderFailed) => CountKind("renderFinal") = 0
  /\ (/\ pc \in {"Finalizing", "Resizing", "Complete", "Failed"}
      /\ \A i \in Ops : vstate[i] = "fulfilled" /\ rstate[i] = "fulfilled")
       => CountKind("renderFinal") = 1

C5_Witness ==
  /\ stackLen = 3
  /\ pc = "Complete"
  /\ CountKind("renderFinal") = 1
  /\ CountKind("rendered") = 3

\* C6: after renderFinal() the renderer's current size is read and the
\* dimension spec resolved against it; resizeTo() is called iff the resolved
\* size differs from the size read, then exactly once and with the resolved
\* size; otherwise render() completes with no resizeTo() call.
C6_ResizeOnlyWhenSizeDiffers ==
  /\ CountKind("resizeTo") <= 1
  /\ \A k \in Events :
       log[k][1] = "resizeTo" =>
         /\ Before(<<"renderFinal", 0>>, <<"getSize", 0>>)
         /\ Pos(<<"getSize", 0>>) < k
         /\ log[k][2] = calculateFinalDimensions(dimensions, initialSize)
         /\ ~equals(log[k][2], initialSize)
  /\ (pc = "Resizing" /\ resizeState = "idle") => initialSize = size
  /\ pc = "Complete" =>
       /\ equals(calculateFinalDimensions(dimensions, initialSize), initialSize)
            => CountKind("resizeTo") = 0 /\ size = initialSize
       /\ ~equals(calculateFinalDimensions(dimensions, initialSize), initialSize)
            => /\ CountKind("resizeTo") = 1
               /\ size = calculateFinalDimensions(dimensions, initialSize)

C6_Witness ==
  /\ pc = "Complete"
  /\ dimensions.kind = "exact"
  /\ CountKind("resizeTo") = 0
  /\ CountKind("rendered") = 2
  /\ initialSize /= imageSize

\* C7: when neither backend is supported, construction fails for every
\* preference, before drawImage() and before any validateSettings() or
\* render(); no render() call happens on the failed instance.
C7_NoRendererNoConstruction ==
  (~webglSupported /\ ~canvasSupported /\ pc /= "New") =>
    /\ pc = "CtorFailed"
    /\ renderer = "null"
    /\ log = <<>>
    /\ promise = "none"
    /\ \A i \in Ops : vstate[i] = "idle" /\ rstate[i] = "idle"

C7_Witness ==
  /\ pc = "CtorFailed"
  /\ preferredRenderer = "canvas"
  /\ stackLen = 3

\* C8: the accelerated backend is selected exactly when it is supported and
\* the preference is not "canvas"; whenever else construction succeeds the
\* canvas backend is selected; with preference "canvas" the accelerated one
\* is never constructed.
C8_BackendSelection ==
  pc /= "New" =>
    /\ renderer = "webgl" <=> (webglSupported /\ preferredRenderer /= "canvas")
    /\ (pc /= "CtorFailed" /\ ~(webglSupported /\ preferredRenderer /= "canvas"))
         => renderer = "canvas"
    /\ preferredRenderer = "canvas" => renderer /= "webgl"
    /\ webglEnabled = (renderer = "webgl")

C8_Witness ==
  /\ pc = "Constructed"
  /\ webglSupported /\ canvasSupported
  /\ preferredRenderer = "canvas"
  /\ renderer = "canvas"

PhaseEdges ==
  { <<"New", "Constructed">>, <<"New", "CtorFailed">>,
    <<"Constructed", "Validating">>, <<"Validating", "Rendering">>,
    <<"Rendering", "Finalizing">>, <<"Finalizing", "Resizing">>,
    <<"Resizing", "Complete">>, <<"Validating", "Failed">>,
    <<"Rendering", "Failed">>, <<"Finalizing", "Failed">>,
    <<"Resizing", "Failed">> }

\* A phase is entered only when the one before it has finished.
PhaseEntered ==
  /\ pc = "Rendering" => \A i \in Ops : vstate[i] = "fulfilled"
  /\ pc = "Finalizing" => \A i \in Ops : rstate[i] = "fulfilled"
  /\ pc = "Resizing" => finalState = "fulfilled"
  /\ pc = "Complete" => resizeState \in {"idle", "fulfilled"}

\* C9: a render pass moves through Constructed, Validating, Rendering,
\* Finalizing, Resizing, Complete in this order only, each phase entered
\* after the previous one has finished; Failed is entered only from
\* Validating, Rendering, Finalizing or Resizing; Complete and Failed are
\* terminal and no call to an operation or the renderer follows them.
C9_PhaseOrder ==
  /\ []PhaseEntered
  /\ [][ /\ pc' /= pc => <<pc, pc'>> \in PhaseEdges
         /\ pc \in {"Complete", "Failed", "CtorFailed"} =>
              /\ pc' = pc
              /\ log' = log
              /\ size' = size
              /\ applied' = applied ]_vars

C9_Witness ==
  /\ pc = "Complete"
  /\ stackLen = 2
  /\ CountKind("resizeTo") = 1
  /\ resizeState = "fulfilled"
  /\ finalState = "fulfilled"

\* C10: no operation's render is invoked until the validateSettings() of
\* every operation has been invoked and has resolved successfully; no
\* validation is waited for before the next one is started (a validation
\* settles only once all of them have been started, unless a synchronous
\* failure ended the loop), so several may be pending at the same time.
C10_ValidateAllBeforeRender ==
  /\ [](CountKind("render") > 0 =>
          \A i \in Ops :
            /\ vstate[i] = "fulfilled"
            /\ \A j \in Ops : Called(<<"render", j>>) =>
                 Before(<<"validateSettings", i>>, <<"render", j>>))
  /\ [][ (\E i \in Ops : vstate[i] = "pending" /\ vstate'[i] /= "pending") =>
           \/ \A j \in Ops : vstate[j] /= "idle"
           \/ mState = "rejected" ]_vars

C10_Witness ==
  /\ stackLen = 3
  /\ pc = "Rendering"
  /\ CountKind("render") = 1
  /\ CountKind("validateSettings") = 3
  /\ rstate[1] = "pending"

Count(e) == Cardinality({k \in Events : log[k] = e})

AllSucceeded ==
  /\ \A i \in Ops : vstate[i] = "fulfilled" /\ rstate[i] = "fulfilled"
  /\ finalState = "fulfilled"
  /\ ~InvalidSpec(dimensions)
  /\ resizeState \in {"idle", "fulfilled"}

SomeStepFailed ==
  \/ SomeValidationFailed
  \/ SomeRenderFailed
  \/ finalState = "rejected"
  \/ pc = "Failed" /\ finalState = "fulfilled" /\ InvalidSpec(dimensions)
  \/ resizeState = "rejected"

\* C12: when every promise of the operations and of the renderer settles,
\* the promise render() returned settles, and only once: it resolves iff
\* every validation, every render, renderFinal(), the dimension resolution
\* and the resize succeeded, and is rejected otherwise.
C12_RenderSettlesOnce ==
  /\ (promise = "pending") ~> (promise \in {"resolved", "rejected"})
  /\ [][(promise /= "pending" /\ promise /= "none") => (promise' = promise)]_vars
  /\ [](promise = "resolved" => AllSucceeded /\ ~SomeStepFailed)
  /\ [](promise = "rejected" => SomeStepFailed /\ ~AllSucceeded)

C12_Witness ==
  /\ stackLen = 3
  /\ promise = "rejected"
  /\ \A i \in Ops : vstate[i] = "fulfilled" /\ rstate[i] = "fulfilled"
  /\ finalState = "fulfilled"
  /\ resizeState = "rejected"

\* C13: within one render() nothing is retried: validateSettings() and
\* render() are invoked at most once per operation, renderFinal() and
\* resizeTo() at most once, also after one of these calls failed.
C13_NothingRetried ==
  /\ \A i \in Ops : /\ Count(<<"validateSettings", i>>) <= 1
                    /\ Count(<<"render", i>>) <= 1
                    /\ Count(<<"rendered", i>>) <= 1
  /\ CountKind("renderFinal") <= 1
  /\ CountKind("getSize") <= 1
  /\ CountKind("resizeTo") <= 1
  /\ CountKind("validateSettings") <= stackLen
  /\ CountKind("render") <= stackLen

C13_Witness ==
  /\ stackLen = 3
  /\ pc = "Failed"
  /\ CountKind("render") = 3
  /\ rstate[2] = "rejected"

\* C17: construction succeeds, with a renderer selected, whenever at least
\* one backend is supported, for every preference; it fails only when
\* neither backend is supported.
C17_ConstructsWheneverSupported ==
  pc /= "New" =>
    /\ (webglSupported \/ canvasSupported) =>
         pc /= "CtorFailed" /\ renderer /= "null"
    /\ pc = "CtorFailed" => ~webglSupported /\ ~canvasSupported

\* ------------------------------------------------------------------------
\* CanvasRenderer (renderers/canvas-renderer.js)
\*
\* A canvas is a record of its width, its height and the drawImage() call
\* that painted it; canvases are named by their index in surfaces, so a
\* canvas is newly allocated exactly when its index is a new one.

\* Largest number of canvases allocated.
MaxSurfaces == 4

\* The states of RenderImage and of the calls, which the canvas renderer
\* on its own does not touch.
PipelineUnused ==
  /\ renderer = "null"
  /\ webglEnabled = FALSE
  /\ pc = "New"
  /\ promise = "none"
  /\ size = <<0, 0>>
  /\ applied = <<>>
  /\ vstate = [i \in AllOps |-> "idle"]
  /\ rstate = [i \in AllOps |-> "idle"]
  /\ mCursor = 0
  /\ mQueue = <<>>
  /\ mInFlight = 0
  /\ mTotalResolved = 0
  /\ mState = "idle"
  /\ mDrain = FALSE
  /\ finalState = "idle"
  /\ resizeState = "idle"
  /\ initialSize = <<0, 0>>
  /\ log = <<>>

\* context.drawImage(source, sx, sy, sw, sh, dx, dy, dw, dh)
Blit(source, sx, sy, sw, sh, dx, dy, dw, dh) ==
  [src |-> source, sx |-> sx, sy |-> sy, sw |-> sw, sh |-> sh,
   dx |-> dx, dy |-> dy, dw |-> dw, dh |-> dh]

\* createCanvas(): a canvas nothing was drawn on, its size not yet set.
createCanvas ==
  [width |-> 0, height |-> 0, drawn |-> Blit(0, 0, 0, 0, 0, 0, 0, 0, 0)]

\* Variant: the source rectangle is taken from the new canvas (a crop).
ResizeBlitCrop(old, oldCanvas, newCanvas) ==
  Blit(old, 0, 0, newCanvas.width, newCanvas.height,
       0, 0, newCanvas.width, newCanvas.height)

\* resizeTo: newContext.drawImage(this._canvas, 0, 0, this._canvas.width,
\* this._canvas.height, 0, 0, newCanvas.width, newCanvas.height)
ResizeBlit(old, oldCanvas, newCanvas) ==
  Blit(old, 0, 0, oldCanvas.width, oldCanvas.height,
       0, 0, newCanvas.width, newCanvas.height)

\* cloneCanvas: context.drawImage(this._canvas, 0, 0), the three-argument
\* form, which draws the whole source at its own size.
CloneBlit(old, oldCanvas) ==
  Blit(old, 0, 0, oldCanvas.width, oldCanvas.height,
       0, 0, oldCanvas.width, oldCanvas.height)

\* new CanvasRenderer(dimensions) followed by drawImage(image): one canvas
\* of the image's size with the image drawn over all of it.
CanvasInit ==
  /\ webglSupported = FALSE
  /\ canvasSupported = TRUE
  /\ preferredRenderer = "canvas"
  /\ stackLen = 0
  /\ imageSize \in Sizes
  /\ dimensions = [kind |-> "unchanged", x |-> 0, y |-> 0]
  /\ PipelineUnused
  /\ surfaces = << [width |-> imageSize[1], height |-> imageSize[2],
                    drawn |-> Blit(0, 0, 0, imageSize[1], imageSize[2],
                                   0, 0, imageSize[1], imageSize[2])] >>
  /\ activeCanvas = 1
  /\ clones = {}
  /\ lastCall = [op |-> "drawImage", arg |-> imageSize, prev |-> 0,
                 result |-> 1]
  /\ imageDefined = TRUE
  /\ runs = <<>>
  /\ insts = <<>>
  /\ rends = <<>>

\* CanvasRenderer.resizeTo(dimensions)
resizeTo(d) ==
  /\ Len(surfaces) < MaxSurfaces
  /\ LET sized == [createCanvas EXCEPT !.width = d[1], !.height = d[2]]
         newCanvas == [sized EXCEPT !.drawn =
                         ResizeBlit(activeCanvas, surfaces[activeCanvas], sized)]
     IN /\ surfaces' = Append(surfaces, newCanvas)
        /\ activeCanvas' = Len(surfaces) + 1
        /\ lastCall' = [op |-> "resizeTo", arg |-> d, prev |-> activeCanvas,
                        result |-> Len(surfaces) + 1]
  /\ UNCHANGED <<envVars, pipeVars, callVars, clones>>

\* Variant: the current canvas itself is returned.
cloneCanvasAlias ==
  /\ Len(surfaces) < MaxSurfaces
  /\ clones' = clones \cup {activeCanvas}
  /\ lastCall' = [op |-> "cloneCanvas",
                  arg |-> <<surfaces[activeCanvas].width,
                            surfaces[activeCanvas].height>>,
                  prev |-> activeCanvas, result |-> activeCanvas]
  /\ UNCHANGED <<envVars, pipeVars, callVars, surfaces, activeCanvas>>

\* CanvasRenderer.cloneCanvas()
cloneCanvas ==
  /\ Len(surfaces) < MaxSurfaces
  /\ LET cur == surfaces[activeCanvas]
         sized == [createCanvas EXCEPT !.width = cur.width,
                                       !.height = cur.height]
         copy == [sized EXCEPT !.drawn = CloneBlit(activeCanvas, cur)]
     IN /\ surfaces' = Append(surfaces, copy)
        /\ clones' = clones \cup {Len(surfaces) + 1}
        /\ lastCall' = [op |-> "cloneCanvas",
                        arg |-> <<cur.width, cur.height>>,
                        prev |-> activeCanvas, result |-> Len(surfaces) + 1]
  /\ UNCHANGED <<envVars, pipeVars, callVars, activeCanvas>>

CanvasNext ==
  \/ \E d \in Sizes : resizeTo(d)
  \/ cloneCanvas

CanvasSpec == CanvasInit /\ [][CanvasNext]_vars

\* C14: after resizeTo(dimensions) the active surface is a newly allocated
\* one, different from the previous one, of width dimensions.x and height
\* dimensions.y; the whole old surface (from (0,0), old width and height)
\* is drawn onto the whole new surface (stretched, not cropped); the old
\* surface is no longer the active one and is left as it was.
C14_ResizeToNewSurface ==
  /\ [](lastCall.op = "resizeTo" =>
          LET new == surfaces[activeCanvas]
              old == surfaces[lastCall.prev]
          IN /\ activeCanvas = lastCall.result
             /\ activeCanvas = Len(surfaces)
             /\ activeCanvas /= lastCall.prev
             /\ new.width = lastCall.arg[1]
             /\ new.height = lastCall.arg[2]
             /\ new.drawn = Blit(lastCall.prev, 0, 0, old.width, old.height,
                                 0, 0, lastCall.arg[1], lastCall.arg[2]))
  /\ [][activeCanvas' /= activeCanvas =>
          /\ activeCanvas' = Len(surfaces) + 1
          /\ Len(surfaces') = Len(surfaces) + 1
          /\ \A k \in 1..Len(surfaces) : surfaces'[k] = surfaces[k]]_vars

C14_Witness ==
  /\ lastCall.op = "resizeTo"
  /\ surfaces[lastCall.prev].width /= surfaces[activeCanvas].width
  /\ surfaces[lastCall.prev].height /= surfaces[activeCanvas].height
  /\ lastCall.prev > 1

\* C15: cloneCanvas() returns a newly allocated surface of the width and
\* height the current surface has at the call and leaves the renderer
\* unchanged (same active surface, same size); a later resizeTo() does not
\* change the size of a clone taken earlier.
C15_CloneIsIndependent ==
  /\ [][clones' /= clones =>
          /\ activeCanvas' = activeCanvas
          /\ \A k \in 1..Len(surfaces) : surfaces'[k] = surfaces[k]
          /\ \E c \in 1..Len(surfaces') :
               /\ c \notin 1..Len(surfaces)
               /\ clones' = clones \cup {c}
               /\ lastCall'.result = c
               /\ surfaces'[c].width = surfaces[activeCanvas].width
               /\ surfaces'[c].height = surfaces[activeCanvas].height]_vars
  /\ [][\A c \in clones :
          /\ c \in clones'
          /\ surfaces'[c].width = surfaces[c].width
          /\ surfaces'[c].height = surfaces[c].height]_vars
  /\ [](\A c \in clones : c /= activeCanvas)

C15_Witness ==
  /\ lastCall.op = "resizeTo"
  /\ \E c \in clones :
       /\ c < activeCanvas
       /\ surfaces[c].width /= surfaces[activeCanvas].width
       /\ surfaces[c].width = surfaces[lastCall.prev].width
       /\ surfaces[c].height = surfaces[lastCall.prev].height

\* ------------------------------------------------------------------------
\* Several render() calls: ImglyKit.render() called repeatedly, and
\* RenderImage.render() called repeatedly on one instance.
\*
\* Each call has its own promise chain, held in a record of runs; the steps
\* of a chain are those of the single call above, written as functions of
\* that record. Only one call at a time is inside a synchronous job.

\* Number of render() calls explored.
NumCalls == 2

\* Largest operation stack when several calls are explored.
CallMaxOps == 2

Calls == 1..NumCalls

\* Dimension specs explored with several calls: none, one that resizes the
\* image, an invalid one.
CallDimSpecs ==
  { [kind |-> "unchanged", x |-> 0, y |-> 0],
    [kind |-> "exact", x |-> 4, y |-> 4],
    [kind |-> "exact", x |-> 0, y |-> 0] }

\* A call that has not been made yet.
NewRun ==
  [pc |-> "New", ri |-> 0, promise |-> "none",
   v |-> [i \in AllOps |-> "idle"], r |-> [i \in AllOps |-> "idle"],
   cursor |-> 0, queue |-> <<>>, inFlight |-> 0, total |-> 0,
   mState |-> "idle", drain |-> FALSE,
   finalState |-> "idle", resizeState |-> "idle", initialSize |-> <<0, 0>>,
   exported |-> 0, exportedCanvas |-> 0]

\* No call is inside a synchronous job of map().
NoJob == \A c \in Calls : runs[c].cursor = 0 /\ ~runs[c].drain

\* The renderer of the RenderImage a call runs on: getRenderer()
getRenderer(u) == insts[u.ri].rend

\* new MappingPromiseArray(...) (StartMap)
RunStartMap(u) ==
  [u EXCEPT !.cursor = IF stackLen = 0 THEN 0 ELSE 1,
            !.queue = <<>>,
            !.inFlight = 0,
            !.total = 0,
            !.mState = IF stackLen = 0 THEN "fulfilled" ELSE "pending",
            !.drain = FALSE]

\* The mapper is called on operation i and returns a promise in state o
\* (CallMapper, MapBook).
RunCallMapper(u, i, o) ==
  LET called == IF u.pc = "Validating" THEN [u EXCEPT !.v[i] = o]
                ELSE [u EXCEPT !.r[i] = o]
  IN [called EXCEPT
        !.inFlight = IF o = "pending" /\ Limit(u.pc) >= 1 THEN @ + 1 ELSE @,
        !.total = IF o = "fulfilled" THEN @ + 1 ELSE @,
        !.mState = MapStateAfter(u.mState, o, u.total + 1, stackLen)]

\* The next step of the loop queues its item instead of mapping it.
Queues(u) == Limit(u.pc) >= 1 /\ u.inFlight >= Limit(u.pc)

\* One iteration of the loop over the input (MapInit).
RunMapInit(u, o) ==
  LET i == u.cursor
      stepped == IF Queues(u) THEN [u EXCEPT !.queue = Append(@, i)]
                 ELSE RunCallMapper(u, i, o)
  IN [stepped EXCEPT !.cursor = IF i = stackLen \/ stepped.mState /= "pending"
                                THEN 0 ELSE i + 1]

\* A pending validateSettings() promise settles (SettleValidate).
RunSettleValidate(u, i, o) ==
  LET settled == [u EXCEPT !.v[i] = o]
  IN IF u.pc = "Validating" /\ u.mState = "pending"
     THEN [settled EXCEPT
             !.total = @ + 1,
             !.mState = MapStateAfter(u.mState, o, u.total + 1, stackLen)]
     ELSE settled

\* A pending render() promise settles (SettleRender).
RunSettleRender(u, i, o) ==
  LET settled == [u EXCEPT !.r[i] = o]
  IN IF u.pc = "Rendering" /\ u.mState = "pending"
     THEN IF o = "fulfilled" /\ Limit(u.pc) >= 1
          THEN [settled EXCEPT !.inFlight = @ - 1, !.drain = TRUE]
          ELSE [settled EXCEPT
                  !.total = @ + 1,
                  !.mState = MapStateAfter(u.mState, o, u.total + 1, stackLen)]
     ELSE settled

\* _drainQueue() has another index to map.
Drains(u) == u.queue /= <<>> /\ u.inFlight < Limit(u.pc) /\ u.mState = "pending"

\* One iteration of _drainQueue() (DrainStep).
RunDrainStep(u, o) ==
  [RunCallMapper(u, QueueNext(u.queue), o) EXCEPT !.queue = QueueRest(u.queue)]

\* _drainQueue() returns (DrainEnd).
RunDrainEnd(u) ==
  IF u.mState = "pending"
  THEN [u EXCEPT !.drain = FALSE,
                 !.total = @ + 1,
                 !.mState = MapStateAfter(u.mState, "fulfilled", u.total + 1,
                                          stackLen)]
  ELSE [u EXCEPT !.drain = FALSE]

\* The chain is rejected (Fail).
RunFail(u) == [u EXCEPT !.pc = "Failed", !.promise = "rejected"]

\* The last .then(): getSize(), calculateFinalDimensions, equals and
\* resizeTo(finalDimensions) with a result in state o (GetSize, Resize).
RunResize(u, cur, o) ==
  LET read == [u EXCEPT !.initialSize = cur]
      finalDimensions == calculateFinalDimensions(dimensions, cur)
  IN IF InvalidSpec(dimensions) THEN RunFail(read)
     ELSE IF NeedsResize(finalDimensions, cur)
     THEN [read EXCEPT !.resizeState = o,
                       !.pc = CASE o = "fulfilled" -> "Complete"
                                [] o = "rejected" -> "Failed"
                                [] OTHER -> "Resizing",
                       !.promise = CASE o = "fulfilled" -> "resolved"
                                     [] o = "rejected" -> "rejected"
                                     [] OTHER -> "pending"]
     ELSE [read EXCEPT !.pc = "Complete", !.promise = "resolved"]

\* The renderer id receives a call issued by the pipeline (RenderImage) ri.
Used(rs, id, ri) == [rs EXCEPT ![id].users = @ \cup {ri}]

\* Variant: one renderer is kept and handed to every RenderImage.
AllocRendererShared(rs) == 1

\* this._renderer = new WebGLRenderer(...) / new CanvasRenderer(...): a new
\* renderer instance.
AllocRenderer(rs) == Len(rs) + 1

\* this._renderer.drawImage(this._image)
drawImage(rs, id) == [rs EXCEPT ![id].draws = @ + 1]

\* The renderers after _initRenderer constructed one of the given kind.
InitRenderer(rs, kind) ==
  LET id == AllocRenderer(rs)
      made == IF id > Len(rs)
              THEN Append(rs, [kind |-> kind, size |-> imageSize, draws |-> 0,
                               users |-> {}])
              ELSE rs
  IN drawImage(made, id)

\* The step of call c leaves its chain in state u.
Step(c, u) == runs' = [runs EXCEPT ![c] = u]

CallMapInit(c, o) ==
  /\ runs[c].pc \in {"Validating", "Rendering"}
  /\ runs[c].cursor /= 0
  /\ runs[c].mState = "pending"
  /\ Step(c, RunMapInit(runs[c], o))
  /\ rends' = IF runs[c].pc = "Rendering" /\ ~Queues(runs[c])
              THEN Used(rends, getRenderer(runs[c]), runs[c].ri) ELSE rends
  /\ UNCHANGED <<envVars, pipeVars, canvasVars, imageDefined, insts>>

CallSettleValidate(c, i, o) ==
  /\ NoJob
  /\ runs[c].v[i] = "pending"
  /\ Step(c, RunSettleValidate(runs[c], i, o))
  /\ UNCHANGED <<envVars, pipeVars, canvasVars, imageDefined, insts, rends>>

CallSettleRender(c, i, o) ==
  /\ NoJob
  /\ runs[c].r[i] = "pending"
  /\ Step(c, RunSettleRender(runs[c], i, o))
  /\ UNCHANGED <<envVars, pipeVars, canvasVars, imageDefined, insts, rends>>

CallDrainStep(c, o) ==
  /\ runs[c].drain
  /\ Drains(runs[c])
  /\ Step(c, RunDrainStep(runs[c], o))
  /\ rends' = Used(rends, getRenderer(runs[c]), runs[c].ri)
  /\ UNCHANGED <<envVars, pipeVars, canvasVars, imageDefined, insts>>

CallDrainEnd(c) ==
  /\ runs[c].drain
  /\ ~Drains(runs[c])
  /\ Step(c, RunDrainEnd(runs[c]))
  /\ UNCHANGED <<envVars, pipeVars, canvasVars, imageDefined, insts, rends>>

CallValidationDone(c) ==
  /\ NoJob
  /\ runs[c].pc = "Validating"
  /\ runs[c].mState = "fulfilled"
  /\ Step(c, RunStartMap([runs[c] EXCEPT !.pc = "Rendering"]))
  /\ UNCHANGED <<envVars, pipeVars, canvasVars, imageDefined, insts, rends>>

\* A rejected map or a rejected renderFinal() rejects the chain
\* (ValidationFailed, RenderFailed, RenderFinalFailed).
CallFailed(c) ==
  /\ NoJob
  /\ \/ runs[c].pc \in {"Validating", "Rendering"} /\ runs[c].mState = "rejected"
     \/ runs[c].pc = "Finalizing" /\ runs[c].finalState = "rejected"
  /\ Step(c, RunFail(runs[c]))
  /\ UNCHANGED <<envVars, pipeVars, canvasVars, imageDefined, insts, rends>>

CallRenderFinal(c, o) ==
  /\ NoJob
  /\ runs[c].pc = "Rendering"
  /\ runs[c].mState = "fulfilled"
  /\ Step(c, [runs[c] EXCEPT !.pc = "Finalizing", !.finalState = o])
  /\ rends' = Used(rends, getRenderer(runs[c]), runs[c].ri)
  /\ UNCHANGED <<envVars, pipeVars, canvasVars, imageDefined, insts>>

CallSettleRenderFinal(c, o) ==
  /\ NoJob
  /\ runs[c].finalState = "pending"
  /\ Step(c, [runs[c] EXCEPT !.finalState = o])
  /\ UNCHANGED <<envVars, pipeVars, canvasVars, imageDefined, insts, rends>>

CallResize(c, o) ==
  /\ NoJob
  /\ runs[c].pc = "Finalizing"
  /\ runs[c].finalState = "fulfilled"
  /\ LET id == getRenderer(runs[c])
         cur == rends[id].size
         u == RunResize(runs[c], cur, o)
     IN /\ Step(c, u)
        /\ rends' = IF u.resizeState = "idle" THEN rends
                    ELSE [Used(rends, id, runs[c].ri) EXCEPT
                            ![id].size = IF o = "fulfilled"
                                         THEN calculateFinalDimensions(dimensions, cur)
                                         ELSE @]
  /\ UNCHANGED <<envVars, pipeVars, canvasVars, imageDefined, insts>>

CallSettleResize(c, o) ==
  /\ NoJob
  /\ runs[c].pc = "Resizing"
  /\ runs[c].resizeState = "pending"
  /\ Step(c, [runs[c] EXCEPT
                !.resizeState = o,
                !.pc = IF o = "fulfilled" THEN "Complete" ELSE "Failed",
                !.promise = IF o = "fulfilled" THEN "resolved" ELSE "rejected"])
  /\ rends' = [rends EXCEPT ![getRenderer(runs[c])].size =
                 IF o = "fulfilled"
                 THEN calculateFinalDimensions(dimensions, runs[c].initialSize)
                 ELSE @]
  /\ UNCHANGED <<envVars, pipeVars, canvasVars, imageDefined, insts>>

\* The steps of the chain of a call that was made.
CallNext ==
  \/ \E c \in Calls, o \in Outcomes : CallMapInit(c, o)
  \/ \E c \in Calls, i \in Ops, o \in Settled : CallSettleValidate(c, i, o)
  \/ \E c \in Calls, i \in Ops, o \in Settled : CallSettleRender(c, i, o)
  \/ \E c \in Calls, o \in Outcomes : CallDrainStep(c, o)
  \/ \E c \in Calls : CallDrainEnd(c)
  \/ \E c \in Calls : CallValidationDone(c)
  \/ \E c \in Calls : CallFailed(c)
  \/ \E c \in Calls, o \in Outcomes : CallRenderFinal(c, o)
  \/ \E c \in Calls, o \in Settled : CallSettleRenderFinal(c, o)
  \/ \E c \in Calls, o \in Outcomes : CallResize(c, o)
  \/ \E c \in Calls, o \in Settled : CallSettleResize(c, o)

\* The environment and the untouched state when several calls are explored;
\* the backend selection is explored with the single call, here no preference
\* is given.
CallInit ==
  /\ webglSupported \in BOOLEAN
  /\ canvasSupported \in BOOLEAN
  /\ preferredRenderer = "auto"
  /\ stackLen \in 0..CallMaxOps
  /\ imageSize = <<2, 4>>
  /\ dimensions \in CallDimSpecs
  /\ PipelineUnused
  /\ surfaces = <<>>
  /\ activeCanvas = 0
  /\ clones = {}
  /\ lastCall = [op |-> "none", arg |-> <<0, 0>>, prev |-> 0, result |-> 0]
  /\ runs = [c \in Calls |-> NewRun]
  /\ insts = <<>>
  /\ rends = <<>>

\* new RenderImage(image, stack, dimensions, preferred): the constructor and
\* _initRenderer; rend = 0 stands for this._renderer === null, with which
\* the constructor throws.
NewRenderImage ==
  LET sel == SelectRenderer(webglSupported, canvasSupported, preferredRenderer)
  IN IF sel = "null"
     THEN /\ insts' = Append(insts, [rend |-> 0])
          /\ UNCHANGED rends
     ELSE /\ insts' = Append(insts, [rend |-> AllocRenderer(rends)])
          /\ rends' = InitRenderer(rends, sel)

\* render() was called on the RenderImage ri.
RunRender(ri) ==
  RunStartMap([NewRun EXCEPT !.pc = "Validating", !.ri = ri,
                             !.promise = "pending"])

\* Calls are made in the order of their numbers.
NextCall(c) == runs[c].pc = "New" /\ \A d \in 1..(c - 1) : runs[d].pc /= "New"

\* ------------------------------------------------------------------------
\* One RenderImage whose render() is called several times, during or after
\* an earlier call.

ReInit ==
  /\ CallInit
  /\ imageDefined = TRUE

ReConstruct ==
  /\ insts = <<>>
  /\ NewRenderImage
  /\ UNCHANGED <<envVars, pipeVars, canvasVars, imageDefined, runs>>

\* Variant: render() draws the source image again before it validates.
ReRenderRedraw(c) ==
  /\ NoJob
  /\ NextCall(c)
  /\ Len(insts) = 1 /\ insts[1].rend /= 0
  /\ Step(c, RunRender(1))
  /\ rends' = drawImage(rends, insts[1].rend)
  /\ UNCHANGED <<envVars, pipeVars, canvasVars, imageDefined, insts>>

\* RenderImage.render() on the constructed instance.
ReRender(c) ==
  /\ NoJob
  /\ NextCall(c)
  /\ Len(insts) = 1 /\ insts[1].rend /= 0
  /\ Step(c, RunRender(1))
  /\ UNCHANGED <<envVars, pipeVars, canvasVars, imageDefined, insts, rends>>

ReNext ==
  \/ ReConstruct
  \/ \E c \in Calls : ReRender(c)
  \/ CallNext

ReSpec == ReInit /\ [][ReNext]_vars

\* C11: the renderer's drawImage(sourceImage) is called exactly once, in the
\* constructor as soon as the backend is constructed, and never again by a
\* later render() call on the instance.
C11_DrawImageOnce ==
  /\ Len(rends) <= 1
  /\ \A id \in 1..Len(rends) : rends[id].draws = 1
  /\ \A c \in Calls : runs[c].pc /= "New" =>
       Len(rends) = 1 /\ rends[getRenderer(runs[c])].draws = 1

C11_Witness ==
  /\ stackLen = 2
  /\ runs[1].pc = "Complete"
  /\ runs[2].pc = "Rendering"
  /\ runs[2].r[1] = "fulfilled"
  /\ rends[1].draws = 1

\* The operations of call c whose render is in flight.
RunInFlight(c) == {i \in Ops : runs[c].r[i] = "pending"}

\* Calls c and d are different calls on the same renderer.
SharedRenderer(c, d) ==
  /\ c /= d
  /\ runs[c].ri /= 0 /\ runs[d].ri /= 0
  /\ getRenderer(runs[c]) = getRenderer(runs[d])

\* C18 as claimed: with a second render() on the same instance while the
\* first is in progress, renders of the two calls never overlap on the
\* shared renderer, and no render of one call is running between the
\* renderFinal() and the size read of the other.
C18_CallsNeverOverlap ==
  \A c \in Calls, d \in Calls :
    SharedRenderer(c, d) =>
      /\ ~(RunInFlight(c) /= {} /\ RunInFlight(d) /= {})
      /\ ~(runs[d].pc = "Finalizing" /\ RunInFlight(c) /= {})

\* C18 as amended: each call keeps at most one of its own renders in flight
\* (so at most one per call in progress is in flight on the shared
\* renderer), and a call starts no render once it has called renderFinal().
C18_OneRenderInFlightPerCall ==
  /\ \A c \in Calls :
       /\ Cardinality(RunInFlight(c)) <= 1
       /\ runs[c].pc \in {"Finalizing", "Resizing", "Complete"} =>
            RunInFlight(c) = {}
  /\ \A id \in 1..Len(rends) :
       Cardinality({<<c, i>> \in Calls \X Ops :
                      /\ runs[c].ri /= 0
                      /\ getRenderer(runs[c]) = id
                      /\ runs[c].r[i] = "pending"})
         <= Cardinality({c \in Calls : runs[c].pc = "Rendering"})

\* Renders of both calls in flight on the one renderer, and a render of the
\* second call in flight after the renderFinal() of the first.
C18_Witness ==
  /\ stackLen = 2
  /\ SharedRenderer(1, 2)
  /\ runs[1].pc = "Finalizing"
  /\ runs[1].finalState = "fulfilled"
  /\ runs[2].r[1] = "pending"
  /\ Len(runs[2].queue) = 1

\* ------------------------------------------------------------------------
\* ImglyKit.render() called several times on one ImglyKit instance.

KitInit ==
  /\ CallInit
  /\ imageDefined \in BOOLEAN

\* ImglyKit.render(renderType, imageFormat, dimensions) up to the call of
\* renderImage.render(); valid tells whether ImageExporter.validateSettings
\* accepts the arguments. A throw leaves the call in "Threw".
ImglyKitRender(c, valid) ==
  /\ NoJob
  /\ NextCall(c)
  /\ IF ~imageDefined \/ ~valid
     THEN /\ Step(c, [NewRun EXCEPT !.pc = "Threw"])
          /\ UNCHANGED <<insts, rends>>
     ELSE /\ NewRenderImage
          /\ IF SelectRenderer(webglSupported, canvasSupported,
                               preferredRenderer) = "null"
             THEN Step(c, [NewRun EXCEPT !.pc = "Threw"])
             ELSE Step(c, RunRender(Len(insts) + 1))
  /\ UNCHANGED <<envVars, pipeVars, canvasVars, imageDefined>>

\* Variant: the export is not chained behind renderImage.render().
ExportEarly(c) ==
  /\ NoJob
  /\ runs[c].pc \notin {"New", "Threw"}
  /\ runs[c].exported = 0
  /\ Step(c, [runs[c] EXCEPT !.exported = @ + 1,
                             !.exportedCanvas = getRenderer(runs[c])])
  /\ UNCHANGED <<envVars, pipeVars, canvasVars, imageDefined, insts, rends>>

\* .then(): canvas = renderImage.getRenderer().getCanvas();
\* ImageExporter.export(canvas, renderType, imageFormat)
Export(c) ==
  /\ NoJob
  /\ runs[c].promise = "resolved"
  /\ runs[c].exported = 0
  /\ Step(c, [runs[c] EXCEPT !.exported = @ + 1,
                             !.exportedCanvas = getRenderer(runs[c])])
  /\ UNCHANGED <<envVars, pipeVars, canvasVars, imageDefined, insts, rends>>

KitNext ==
  \/ \E c \in Calls, valid \in BOOLEAN : ImglyKitRender(c, valid)
  \/ \E c \in Calls : Export(c)
  \/ CallNext

KitSpec == KitInit /\ [][KitNext]_vars

\* C16: with overlapping ImglyKit.render() calls each call constructs its
\* own RenderImage with its own renderer, no renderer receives render(),
\* renderFinal() or resizeTo() calls of two pipelines, and the canvas a call
\* hands to the exporter is that of its own renderer.
C16_RendererNotShared ==
  /\ \A id \in 1..Len(rends) :
       Cardinality(rends[id].users) <= 1 /\ rends[id].draws = 1
  /\ \A c \in Calls, d \in Calls :
       (c /= d /\ runs[c].ri /= 0 /\ runs[d].ri /= 0) =>
         /\ runs[c].ri /= runs[d].ri
         /\ getRenderer(runs[c]) /= getRenderer(runs[d])
  /\ \A c \in Calls :
       runs[c].exported > 0 =>
         /\ runs[c].exportedCanvas = getRenderer(runs[c])
         /\ rends[runs[c].exportedCanvas].users \subseteq {runs[c].ri}
         /\ \A d \in Calls \ {c} :
              runs[d].exported > 0 =>
                runs[d].exportedCanvas /= runs[c].exportedCanvas

C16_Witness ==
  /\ stackLen = 2
  /\ runs[1].r[1] = "pending"
  /\ runs[2].pc = "Complete"
  /\ runs[2].exported = 1
  /\ runs[2].exportedCanvas = 2
  /\ rends[2].users = {2}
  /\ rends[1].users = {1}

\* C19: ImglyKit.render() reads the canvas and calls the exporter only after
\* the pipeline's render() resolved; when that promise is rejected, when
\* options.image is undefined or when construction fails the exporter is
\* never called; with options.image undefined the call fails before any
\* RenderImage or renderer is constructed.
C19_ExportAfterRender ==
  /\ \A c \in Calls :
       /\ runs[c].exported <= 1
       /\ runs[c].exported > 0 =>
            /\ runs[c].promise = "resolved"
            /\ runs[c].pc = "Complete"
            /\ \A i \in Ops : runs[c].r[i] = "fulfilled"
            /\ runs[c].finalState = "fulfilled"
            /\ runs[c].resizeState \in {"idle", "fulfilled"}
       /\ (runs[c].promise = "rejected" \/ runs[c].pc \in {"Threw", "Failed"})
            => runs[c].exported = 0
  /\ ~imageDefined =>
       /\ insts = <<>>
       /\ rends = <<>>
       /\ \A c \in Calls : runs[c].pc \in {"New", "Threw"}
  /\ (~webglSupported /\ ~canvasSupported) =>
       \A c \in Calls : runs[c].pc \in {"New", "Threw"} /\ runs[c].exported = 0

C19_Witness ==
  /\ stackLen = 2
  /\ runs[1].exported = 1
  /\ runs[1].resizeState = "fulfilled"
  /\ rends[1].size = <<4, 4>>
  /\ runs[2].pc = "Failed"

====
